---- MODULE Spec2Model ----
(***************************************************************************)
(* Model of the deposits checker (src/src/main.rs): the block-range        *)
(* chunker, the eth_getLogs fetcher over the JSON-RPC transport, the       *)
(* deposit log decoder and the index contiguity check of main().           *)
(*                                                                         *)
(* Text is a sequence of one-character strings, a byte vector a sequence   *)
(* of 0..255, Option<T> a sequence of length 0 (None) or 1 (Some), and     *)
(* Result<T, String> a record [ok |-> TRUE, val |-> t] or                  *)
(* [ok |-> FALSE, err |-> message], a message being the sequence of its    *)
(* parts, outermost context first.                                         *)
(***************************************************************************)
EXTENDS Integers, Sequences, FiniteSets, TLC

VARIABLES
    start_block,   \* START_BLOCK of the run
    end_block,     \* END_BLOCK of the run
    chunk_size,    \* the argument of .chunks(..)
    range_chunks,  \* main: Vec<Range<u64>>
    next_chunk,    \* main: number of chunks the outer for loop has taken
    pc,            \* main: position of the single thread of control
    in_flight,     \* the HTTP requests sent whose exchange has not ended
    logs,          \* main: what is left of the inner loop's Vec<Log>
    indices,       \* main: Vec<u64>
    panic,         \* the message the process died with, <<>> while alive
    sent,          \* history: every JSON-RPC request issued, in order
    resp,          \* the HTTP response of the last request, as far as it is in
    rr,            \* history: what response_result returned for it
    accepted,      \* history: the log pushed for each element of indices
    last,          \* history: the last log taken by the inner loop
    n_returned,    \* history: number of logs the fetches have returned
    n_fed,         \* history: number of logs the inner loop has taken
    in_order,      \* history: every log taken so far carried its position
    chain,         \* the node's chain: the deposit logs of block 0, 1, ...
    inclusive,     \* the node returns the logs of block toBlock too
    call,          \* a function called on its own: its name, its argument
                   \* (of an async function the response, as far as it is
                   \* in) and how far it has run
    returned       \* what that call returned

vars == <<start_block, end_block, chunk_size, range_chunks, next_chunk, pc,
          in_flight, logs, indices, panic, sent, resp, rr, accepted, last,
          n_returned, n_fed, in_order, chain, inclusive, call, returned>>

----------------------------------------------------------------------------
(* Option and Result *)

None == <<>>
Some(x) == <<x>>
Ok(x) == [ok |-> TRUE, val |-> x]
Err(e) == [ok |-> FALSE, err |-> e]

Min(a, b) == IF a < b THEN a ELSE b

----------------------------------------------------------------------------
(* serde_json::Value *)

JNull == [t |-> "null", v |-> <<>>]
JNum(n) == [t |-> "number", v |-> n]
JStr(s) == [t |-> "string", v |-> s]
JArr(a) == [t |-> "array", v |-> a]
JObj(f) == [t |-> "object", v |-> f]

\* Value::get(key): None unless the value is an object that has the key.
Get(value, key) ==
    IF value.t = "object" /\ key \in DOMAIN value.v
    THEN Some(value.v[key])
    ELSE None

\* Value::as_str
AsStr(value) == IF value.t = "string" THEN Some(value.v) ELSE None

\* Value::as_array
AsArray(value) == IF value.t = "array" THEN Some(value.v) ELSE None

----------------------------------------------------------------------------
(* Hex parsing *)

HexDigitValue ==
    [c \in {"0", "1", "2", "3", "4", "5", "6", "7", "8", "9",
            "a", "b", "c", "d", "e", "f", "A", "B", "C", "D", "E", "F"} |->
        CASE c = "0" -> 0 [] c = "1" -> 1 [] c = "2" -> 2 [] c = "3" -> 3
          [] c = "4" -> 4 [] c = "5" -> 5 [] c = "6" -> 6 [] c = "7" -> 7
          [] c = "8" -> 8 [] c = "9" -> 9
          [] c \in {"a", "A"} -> 10 [] c \in {"b", "B"} -> 11
          [] c \in {"c", "C"} -> 12 [] c \in {"d", "D"} -> 13
          [] c \in {"e", "E"} -> 14 [] c \in {"f", "F"} -> 15]

IsHexDigit(c) == c \in DOMAIN HexDigitValue

\* strip_prefix
strip_prefix(hex) ==
    IF Len(hex) >= 2 /\ hex[1] = "0" /\ hex[2] = "x"
    THEN Ok(SubSeq(hex, 3, Len(hex)))
    ELSE Err(<<"Hex string did not start with 0x">>)

\* The digits of a number with its leading zeros dropped.
RECURSIVE DropZeros(_)
DropZeros(digits) ==
    IF digits # <<>> /\ digits[1] = "0" THEN DropZeros(Tail(digits)) ELSE digits

\* The value of a sequence of hex digits, most significant first.
RECURSIVE HexValue(_)
HexValue(digits) ==
    IF digits = <<>> THEN 0
    ELSE 16 * HexValue(SubSeq(digits, 1, Len(digits) - 1))
         + HexDigitValue[digits[Len(digits)]]

\* The number of hex digits of u64::MAX.
U64HexDigits == 64 \div 4

\* The loop of u64::from_str_radix(src, 16) from the k-th digit on: the
\* digits are read one by one, and the first that is no hex digit, or that
\* takes the value above u64::MAX, ends the loop with its error.
RECURSIVE ReadHexDigits(_, _)
ReadHexDigits(digits, k) ==
    IF k > Len(digits) THEN Ok(HexValue(DropZeros(digits)))
    ELSE IF ~IsHexDigit(digits[k]) THEN Err(<<"InvalidDigit">>)
    ELSE IF Len(DropZeros(SubSeq(digits, 1, k))) > U64HexDigits
    THEN Err(<<"PosOverflow">>)
    ELSE ReadHexDigits(digits, k + 1)

\* u64::from_str_radix(src, 16): an optional leading "+", then one or more
\* hex digits of either case, read from the left.
from_str_radix16(src) ==
    LET digits == IF src # <<>> /\ src[1] = "+" /\ Len(src) > 1
                  THEN Tail(src) ELSE src
    IN  IF src = <<>> THEN Err(<<"Empty">>) ELSE ReadHexDigits(digits, 1)

\* A hex_to_u64_be that parses the digits of a string without prefix.
hex_to_u64_be_prefix_optional(hex) ==
    LET stripped == strip_prefix(hex)
        parsed == from_str_radix16(IF stripped.ok THEN stripped.val ELSE hex)
    IN  IF parsed.ok THEN parsed
        ELSE Err(<<"Failed to parse hex as u64">> \o parsed.err)

\* hex_to_u64_be
hex_to_u64_be(hex) ==
    LET stripped == strip_prefix(hex)
    IN  IF ~stripped.ok THEN stripped
        ELSE LET parsed == from_str_radix16(stripped.val)
             IN  IF parsed.ok THEN parsed
                 ELSE Err(<<"Failed to parse hex as u64">> \o parsed.err)

\* A text is a sequence of characters; a character of ASCII is the string
\* of that character, a character outside ASCII the string of its code
\* point, "U+" and its hex digits. The code point read up to the n-th
\* character of that string.
RECURSIVE CodePointUpTo(_, _)
CodePointUpTo(c, n) ==
    IF n < 3 THEN 0
    ELSE 16 * CodePointUpTo(c, n - 1) + HexDigitValue[SubSeq(c, n, n)]

\* The code point of a character outside ASCII.
CodePoint(c) == CodePointUpTo(c, Len(c))

\* char::len_utf8: the number of bytes of a character in UTF-8.
Utf8Len(c) ==
    IF Len(c) = 1 THEN 1
    ELSE IF CodePoint(c) < 128 THEN 1
    ELSE IF CodePoint(c) < 2048 THEN 2
    ELSE IF CodePoint(c) < 65536 THEN 3
    ELSE 4

\* str::as_bytes: the bytes of a text, a byte of ASCII written as its
\* character and a byte of a longer character as "0x80..0xff".
RECURSIVE Utf8Bytes(_)
Utf8Bytes(text) ==
    IF \A k \in 1..Len(text) : Utf8Len(text[k]) = 1 THEN text
    ELSE (IF Utf8Len(text[1]) = 1 THEN <<text[1]>>
          ELSE [k \in 1..Utf8Len(text[1]) |-> "0x80..0xff"])
         \o Utf8Bytes(Tail(text))

\* hex::decode: over the bytes of the text, two hex digits of either case
\* per byte.
hex_decode(s) ==
    LET bytes == Utf8Bytes(s)
    IN  IF Len(bytes) % 2 # 0 THEN Err(<<"OddLength">>)
        ELSE IF \E k \in 1..Len(bytes) : ~IsHexDigit(bytes[k])
        THEN Err(<<"InvalidHexCharacter">>)
        ELSE Ok([k \in 1..(Len(bytes) \div 2) |->
                    16 * HexDigitValue[bytes[2 * k - 1]]
                    + HexDigitValue[bytes[2 * k]]])

\* hex_to_bytes
hex_to_bytes(hex) ==
    LET stripped == strip_prefix(hex)
    IN  IF ~stripped.ok THEN stripped
        ELSE LET decoded == hex_decode(stripped.val)
             IN  IF decoded.ok THEN decoded
                 ELSE Err(<<"Failed to parse hex as bytes">> \o decoded.err)

\* The digits of format!("{:x}", n): lower case, no leading zeros.
RECURSIVE LowerHex(_)
LowerHex(n) ==
    LET digit == SubSeq(<<"0", "1", "2", "3", "4", "5", "6", "7", "8", "9",
                          "a", "b", "c", "d", "e", "f">>, (n % 16) + 1, (n % 16) + 1)
    IN  IF n < 16 THEN digit ELSE LowerHex(n \div 16) \o digit

\* format!("0x{:x}", n)
FormatHex(n) == <<"0", "x">> \o LowerHex(n)

----------------------------------------------------------------------------
(* The JSON-RPC transport *)

\* An HTTP exchange as send_rpc_request sees it:
\*   sent          send() returned a response (no connection error, no timeout)
\*   status        the HTTP status code
\*   content_type  the Content-Type header, if any: whether to_str() accepts
\*                 it (visible ASCII only) and its text
\*   received      bytes() returned the whole body
\*   body          what serde_json::from_str makes of the body text: None
\*                 when it is not JSON, else the Value
HttpResponse(was_sent, status, content_type, received, body) ==
    [sent |-> was_sent, status |-> status, content_type |-> content_type,
     received |-> received, body |-> body]

StatusOK == 200

\* What send() resolves to: the exchange before any of the body is in.
HeadOf(response) == [response EXCEPT !.received = FALSE, !.body = None]

\* A send_rpc_request that does not look at the HTTP status.
send_rpc_request_head_any_status(response) ==
    IF ~response.sent THEN Err(<<"Request failed">>)
    ELSE IF response.content_type = None
    THEN Err(<<"No content-type header in response">>)
    ELSE IF ~response.content_type[1].ascii
    THEN Err(<<"Failed to parse content-type header">>)
    ELSE Ok(response.content_type[1].text)

\* send_rpc_request, from the moment send() resolves up to the call of
\* bytes(): Ok(the encoding) or the error.
send_rpc_request_head(response) ==
    IF ~response.sent THEN Err(<<"Request failed">>)
    ELSE IF response.status # StatusOK
    THEN Err(<<"Response HTTP status was not 200 OK">>)
    ELSE IF response.content_type = None
    THEN Err(<<"No content-type header in response">>)
    ELSE IF ~response.content_type[1].ascii
    THEN Err(<<"Failed to parse content-type header">>)
    ELSE Ok(response.content_type[1].text)

\* send_rpc_request, from the moment bytes() resolves on: Ok(the body) or
\* the error.
send_rpc_request_body(encoding, response) ==
    IF ~response.received
    THEN Err(<<"Failed to receive body", "Failed to receive body">>)
    ELSE IF encoding \in {"application/json", "application/json; charset=utf-8"}
    THEN Ok(response.body)
    ELSE Err(<<"Failed to receive body", "Unsupported encoding">>)

\* send_rpc_request, from the response on: Ok(the body) or the error.
send_rpc_request(response) ==
    LET encoding == send_rpc_request_head(response)
    IN  IF ~encoding.ok THEN encoding
        ELSE send_rpc_request_body(encoding.val, response)

\* response_result looking at the result member before the error member.
response_result_result_first(body) ==
    IF body = None THEN Err(<<"Failed to parse response">>)
    ELSE IF Get(body[1], "result") # None
    THEN Ok(Some(Get(body[1], "result")[1]))
    ELSE IF Get(body[1], "error") # None
    THEN Err(<<"Eth1 node returned error">>)
    ELSE Ok(None)

\* response_result: the result field of the envelope, as Option<Value>.
response_result(body) ==
    IF body = None THEN Err(<<"Failed to parse response">>)
    ELSE IF Get(body[1], "error") # None
    THEN Err(<<"Eth1 node returned error">>)
    ELSE Ok(IF Get(body[1], "result") # None
            THEN Some(Get(body[1], "result")[1])
            ELSE None)

----------------------------------------------------------------------------
(* The fetcher *)

\* struct Log
Log(block_number, data) == [block_number |-> block_number, data |-> data]

\* The closure get_deposit_logs_in_range maps over the result array.
LogOfValue(value) ==
    IF Get(value, "blockNumber") = None
    THEN Err(<<"No block number field in log">>)
    ELSE IF AsStr(Get(value, "blockNumber")[1]) = None
    THEN Err(<<"Block number was not string">>)
    ELSE IF Get(value, "data") = None
    THEN Err(<<"No block number field in log">>)
    ELSE IF AsStr(Get(value, "data")[1]) = None
    THEN Err(<<"Data was not string">>)
    ELSE LET block_number == hex_to_u64_be(AsStr(Get(value, "blockNumber")[1])[1])
             data == hex_to_bytes(AsStr(Get(value, "data")[1])[1])
         IN  IF ~block_number.ok THEN block_number
             ELSE IF ~data.ok THEN data
             ELSE Ok(Log(block_number.val, data.val))

\* A collect that keeps the values and drops the errors (filter_map(Result::ok)).
CollectSkippingErrors(results) ==
    LET kept == {k \in 1..Len(results) : results[k].ok}
        nth(n) == CHOOSE k \in kept : Cardinality({j \in kept : j <= k}) = n
    IN  Ok([n \in 1..Cardinality(kept) |-> results[nth(n)].val])

\* Iterator::collect::<Result<Vec<_>, _>>(): the first error, else all values.
Collect(results) ==
    IF \E k \in 1..Len(results) : ~results[k].ok
    THEN results[CHOOSE k \in 1..Len(results) :
                    /\ ~results[k].ok
                    /\ \A j \in 1..(k - 1) : results[j].ok]
    ELSE Ok([k \in 1..Len(results) |-> results[k].val])

\* get_deposit_logs_in_range: send_rpc_request(..).await? and
\* response_result(..)?, from the response on.
rpc_result(response) ==
    LET response_body == send_rpc_request(response)
    IN  IF ~response_body.ok THEN response_body
        ELSE response_result(response_body.val)

\* get_deposit_logs_in_range: from the Option<Value> of response_result to
\* the Vec<Log>.
result_logs(result) ==
    IF result = None
    THEN Err(<<"No result field was returned for deposit logs">>)
    ELSE IF AsArray(result[1]) = None
    THEN Err(<<"'result' value was not an array">>)
    ELSE LET array == AsArray(result[1])[1]
             collected == Collect([k \in 1..Len(array) |-> LogOfValue(array[k])])
         IN  IF collected.ok THEN collected
             ELSE Err(<<"Failed to get logs in range">> \o collected.err)

\* The params of the eth_getLogs request.
GetLogsRequest(block_height_range) ==
    [method |-> "eth_getLogs",
     fromBlock |-> FormatHex(block_height_range.start),
     toBlock |-> FormatHex(block_height_range.end)]

----------------------------------------------------------------------------
(* The decoder *)

PUBKEY_START == 192
CREDS_START == PUBKEY_START + 64 + 32
AMOUNT_START == CREDS_START + 32 + 32
SIG_START == AMOUNT_START + 32 + 32
INDEX_START == SIG_START + 96 + 32
INDEX_LEN == 8

\* A slice get that gives the bytes there are when the slice ends early.
SliceGetPartial(bytes, from, to) ==
    IF from < Len(bytes) THEN Some(SubSeq(bytes, from + 1, Min(to, Len(bytes))))
    ELSE None

\* <[u8]>::get(from..to), offsets counted from 0.
SliceGet(bytes, from, to) ==
    IF to <= Len(bytes) THEN Some(SubSeq(bytes, from + 1, to)) ELSE None

\* u64::from_le_bytes
RECURSIVE from_le_bytes(_)
from_le_bytes(bytes) ==
    IF bytes = <<>> THEN 0 ELSE bytes[1] + 256 * from_le_bytes(Tail(bytes))

\* <u64 as ssz::Decode>::from_ssz_bytes
from_ssz_bytes(bytes) ==
    IF Len(bytes) # 8 THEN Err(<<"InvalidByteLength">>)
    ELSE Ok(from_le_bytes(bytes))

\* from_log
from_log(log) ==
    LET index == SliceGet(log.data, INDEX_START, INDEX_START + INDEX_LEN)
    IN  IF index = None THEN Err(<<"Insufficient bytes for index">>)
        ELSE LET decoded == from_ssz_bytes(index[1])
             IN  IF decoded.ok THEN decoded
                 ELSE Err(<<"Invalid index ssz">> \o decoded.err)

----------------------------------------------------------------------------
(* The chunker *)

Range(start, end) == [start |-> start, end |-> end]

\* (start..end).collect::<Vec<u64>>()
CollectRange(start, end) ==
    IF start < end THEN [k \in 1..(end - start) |-> start + k - 1] ELSE <<>>

\* <[T]>::chunks_exact(size): the slices of size elements only, the shorter
\* remainder left out.
SliceChunksExact(vec, size) ==
    [j \in 1..(Len(vec) \div size) |->
        SubSeq(vec, (j - 1) * size + 1, j * size)]

\* <[T]>::chunks(size): consecutive slices of size elements, the last one
\* shorter when the length is no multiple of size.
SliceChunks(vec, size) ==
    [j \in 1..((Len(vec) + size - 1) \div size) |->
        SubSeq(vec, (j - 1) * size + 1, Min(j * size, Len(vec)))]

\* The closure with the last block taken as the end of the range.
RangeOfChunkInclusive(vec) ==
    Range(IF vec # <<>> THEN vec[1] ELSE 0,
          IF vec # <<>> THEN vec[Len(vec)] ELSE 0)

\* The closure main maps over the chunks.
RangeOfChunk(vec) ==
    Range(IF vec # <<>> THEN vec[1] ELSE 0,
          IF vec # <<>> THEN vec[Len(vec)] + 1 ELSE 0)

\* main: range_chunks
RangeChunks(start, end, size) ==
    LET slices == SliceChunks(CollectRange(start, end), size)
    IN  [j \in 1..Len(slices) |-> RangeOfChunk(slices[j])]

----------------------------------------------------------------------------
(* The index check of main *)

\* The match with the Less arm pushing the index again.
MatchIndexPushingDuplicate(idxs, index) ==
    IF index <= Len(idxs)
    THEN [indices |-> Append(idxs, index), panic |-> None]
    ELSE [indices |-> idxs, panic |-> <<"Non consecutive">>]

\* The match with the push of the Equal arm left out.
MatchIndexWithoutPush(idxs, index) ==
    IF index = Len(idxs)
    THEN [indices |-> idxs, panic |-> None]
    ELSE IF index < Len(idxs)
    THEN [indices |-> idxs,
          panic |-> IF idxs[index + 1] # index
                    THEN <<"Duplicate distinct log">> ELSE None]
    ELSE [indices |-> idxs, panic |-> <<"Non consecutive">>]

\* The match with the Greater arm only printing.
MatchIndexToleratingGap(idxs, index) ==
    IF index = Len(idxs)
    THEN [indices |-> Append(idxs, index), panic |-> None]
    ELSE IF index < Len(idxs)
    THEN [indices |-> idxs,
          panic |-> IF idxs[index + 1] # index
                    THEN <<"Duplicate distinct log">> ELSE None]
    ELSE [indices |-> idxs, panic |-> None]

\* The match with the Less arm panicking on every index already seen.
MatchIndexRejectingDuplicate(idxs, index) ==
    IF index = Len(idxs)
    THEN [indices |-> Append(idxs, index), panic |-> None]
    ELSE IF index < Len(idxs)
    THEN [indices |-> idxs, panic |-> <<"Duplicate distinct log">>]
    ELSE [indices |-> idxs, panic |-> <<"Non consecutive">>]

\* The match with the Greater arm recording the index.
MatchIndexPushingGap(idxs, index) ==
    IF index >= Len(idxs)
    THEN [indices |-> Append(idxs, index), panic |-> None]
    ELSE [indices |-> idxs,
          panic |-> IF idxs[index + 1] # index
                    THEN <<"Duplicate distinct log">> ELSE None]

\* main: the match on index.cmp(&(indices.len() as u64)). Gives the new
\* indices and the panic message, None when the arm does not panic.
MatchIndex(idxs, index) ==
    IF index = Len(idxs)
    THEN [indices |-> Append(idxs, index), panic |-> None]
    ELSE IF index < Len(idxs)
    THEN [indices |-> idxs,
          panic |-> IF idxs[index + 1] # index
                    THEN <<"Duplicate distinct log">> ELSE None]
    ELSE [indices |-> idxs, panic |-> <<"Non consecutive">>]

----------------------------------------------------------------------------
(* The inputs of the model: the run's block range and what the node answers *)

\* The runs of main: START_BLOCK in 0..MaxStart, END_BLOCK in 0..MaxBlock,
\* chunks of 1..MaxChunkSize blocks.
MaxStart == 1
MaxBlock == 2
MaxChunkSize == 2

\* The node's answers: every array of at most MaxLogs deposit logs of index
\* 0..MaxIndex, and the arrays listed in ResultArrays.
MaxLogs == 2
MaxIndex == 2

\* The chunker alone: start in 0..ChunkerMaxStart, end in 0..ChunkerMaxEnd,
\* chunks of 1..ChunkerMaxSize blocks.
ChunkerMaxStart == 3
ChunkerMaxEnd == 8
ChunkerMaxSize == 4

\* The event data of a deposit as the contract ABI-encodes it: 576 bytes,
\* the first byte of the public key and the index (little-endian) set, the
\* other bytes zero.
DepositData(pubkey0, index) ==
    [k \in 1..(INDEX_START + 32) |->
        IF k = PUBKEY_START + 1 THEN pubkey0
        ELSE IF k = INDEX_START + 1 THEN index % 256
        ELSE IF k = INDEX_START + 2 THEN (index \div 256) % 256
        ELSE 0]

\* Bytes as the node writes them: 0x and two lower-case digits per byte.
HexText(bytes) ==
    <<"0", "x">> \o
    [k \in 1..(2 * Len(bytes)) |->
        LET byte == bytes[(k + 1) \div 2]
        IN  LowerHex(IF k % 2 = 1 THEN byte \div 16 ELSE byte % 16)[1]]

\* A well-formed element of the result array.
WireLog(data) ==
    JObj([blockNumber |-> JStr(<<"0", "x", "1">>), data |-> JStr(HexText(data))])

\* The deposit of index i, and a second deposit log that carries the same
\* index with another public key.
Deposit(i) == WireLog(DepositData(0, i))
OtherDeposit(i) == WireLog(DepositData(7, i))

\* A log whose data stops inside the index field.
ShortLog == WireLog(SubSeq(DepositData(0, 0), 1, INDEX_START + INDEX_LEN - 1))

\* The deposit of index 0 in a log whose block number is written 0x+1.
SignedBlockLog ==
    JObj([blockNumber |-> JStr(<<"0", "x", "+", "1">>),
          data |-> JStr(HexText(DepositData(0, 0)))])

\* Elements get_deposit_logs_in_range rejects.
MalformedLogs ==
    {JNull,
     JObj([data |-> JStr(<<"0", "x">>)]),
     JObj([blockNumber |-> JNum(1), data |-> JStr(<<"0", "x">>)]),
     JObj([blockNumber |-> JStr(<<"1">>), data |-> JStr(<<"0", "x">>)]),
     JObj([blockNumber |-> JStr(<<"0", "x", "z", "z">>), data |-> JStr(<<"0", "x">>)]),
     JObj([blockNumber |-> JStr(<<"0", "x">>), data |-> JStr(<<"0", "x">>)]),
     JObj([blockNumber |-> JStr(<<"0", "x", "1">>)]),
     JObj([blockNumber |-> JStr(<<"0", "x", "1">>), data |-> JNull]),
     JObj([blockNumber |-> JStr(<<"0", "x", "1">>), data |-> JStr(<<"0", "0">>)]),
     JObj([blockNumber |-> JStr(<<"0", "x", "1">>), data |-> JStr(<<"0", "x", "0">>)]),
     JObj([blockNumber |-> JStr(<<"0", "x", "1">>), data |-> JStr(<<"0", "x", "z", "z">>)]),
     JObj([blockNumber |-> JStr(<<"0", "x", "1">>), data |-> JStr(<<"0", "x", "U+00E9">>)]),
     JObj([blockNumber |-> JStr(<<"0", "x", "1">>),
           data |-> JStr(<<"0", "x", "0", "U+00E9">>)]),
     JObj([blockNumber |-> JStr(<<"0", "x", "1">>), data |-> JStr(<<"0", "x", "U+00FC">>)]),
     JObj([blockNumber |-> JStr(<<"0", "x", "1">>),
           data |-> JStr(<<"0", "x", "0", "U+4E2D">>)]),
     JObj([blockNumber |-> JStr(<<"0", "x", "1">>),
           data |-> JStr(<<"0", "x", "U+1F600">>)]),
     JObj([blockNumber |-> JStr(<<"0", "x", "1">> \o [k \in 1..U64HexDigits |-> "0"]
                                \o <<"z">>),
           data |-> JStr(<<"0", "x">>)])}

\* Sequences over a set, of length at most n.
SeqsUpTo(S, n) == UNION {[1..m -> S] : m \in 0..n}

\* The result arrays the node may answer with.
ResultArrays ==
    SeqsUpTo({Deposit(i) : i \in 0..MaxIndex}, MaxLogs)
    \cup {<<Deposit(0), Deposit(1), Deposit(2), Deposit(3), Deposit(4)>>,
          <<Deposit(5), Deposit(6), Deposit(6)>>,
          <<Deposit(0), Deposit(1), Deposit(1), Deposit(2)>>,
          <<Deposit(0), Deposit(1), OtherDeposit(1), Deposit(2)>>,
          <<OtherDeposit(1)>>, <<OtherDeposit(1), Deposit(2)>>,
          <<Deposit(0), OtherDeposit(1)>>,
          <<Deposit(0), Deposit(1), Deposit(3)>>,
          <<ShortLog>>, <<Deposit(0), ShortLog>>, <<Deposit(0), ShortLog, Deposit(1)>>,
          <<SignedBlockLog>>}
    \cup {<<m>> : m \in MalformedLogs}
    \cup {<<Deposit(0), m>> : m \in MalformedLogs}
    \cup {<<Deposit(0), m, Deposit(1)>> : m \in MalformedLogs}

\* A JSON-RPC envelope with the given optional error and result members.
Envelope(error, result) ==
    JObj([k \in {"jsonrpc", "id"}
               \cup (IF error = None THEN {} ELSE {"error"})
               \cup (IF result = None THEN {} ELSE {"result"}) |->
            CASE k = "jsonrpc" -> JStr(<<"2", ".", "0">>)
              [] k = "id" -> JNum(1)
              [] k = "error" -> error[1]
              [] k = "result" -> result[1]])

JsonContentType == Some([ascii |-> TRUE, text |-> "application/json"])

\* A 200 OK answer with a JSON content type and the given parsed body.
Reply(body) == HttpResponse(TRUE, StatusOK, JsonContentType, TRUE, body)

\* What the node may answer to one request.
Responses ==
    {Reply(Some(Envelope(None, Some(JArr(a))))) : a \in ResultArrays}
    \cup {Reply(Some(Envelope(e, r))) :
            e \in {Some(JNull), Some(JStr(<<"e">>))},
            r \in {None, Some(JArr(<<>>)), Some(JArr(<<Deposit(0)>>))}}
    \cup {Reply(Some(Envelope(None, r))) :
            r \in {None, Some(JNull), Some(JStr(<<"0", "x", "1">>))}}
    \cup {Reply(None), Reply(Some(JArr(<<>>))), Reply(Some(JStr(<<"e">>)))}
    \cup {HttpResponse(FALSE, 0, None, FALSE, None)}
    \cup {HttpResponse(TRUE, st, ct, rcv, Some(Envelope(None, Some(JArr(<<>>))))) :
            st \in {StatusOK, 500},
            ct \in {None, JsonContentType,
                    Some([ascii |-> FALSE, text |-> ""]),
                    Some([ascii |-> TRUE, text |-> "application/json; charset=utf-8"]),
                    Some([ascii |-> TRUE, text |-> "text/html"])},
            rcv \in BOOLEAN}

----------------------------------------------------------------------------
(* main *)

Init ==
    /\ start_block \in 0..MaxStart
    /\ end_block \in 0..MaxBlock
    /\ chunk_size \in 1..MaxChunkSize
    /\ range_chunks = <<>>
    /\ next_chunk = 0
    /\ pc = "chunks"
    /\ in_flight = {}
    /\ logs = <<>>
    /\ indices = <<>>
    /\ panic = None
    /\ sent = <<>>
    /\ resp = None
    /\ rr = None
    /\ accepted = <<>>
    /\ last = None
    /\ n_returned = 0
    /\ n_fed = 0
    /\ in_order = TRUE
    /\ chain = <<>>
    /\ inclusive = FALSE
    /\ call = None
    /\ returned = None

\* main asking the node for its block number before it builds the chunks.
BuildChunksFromHead ==
    /\ pc = "chunks"
    /\ range_chunks' = RangeChunks(start_block, end_block, chunk_size)
    /\ sent' = Append(sent, [method |-> "eth_blockNumber",
                             fromBlock |-> <<>>, toBlock |-> <<>>])
    /\ pc' = "loop"
    /\ UNCHANGED <<chain, inclusive, call, returned>>
    /\ UNCHANGED <<start_block, end_block, chunk_size, next_chunk, in_flight,
                   logs, indices, panic, resp, rr, accepted, last,
                   n_returned, n_fed, in_order>>

\* main: let range_chunks = ...
BuildChunks ==
    /\ pc = "chunks"
    /\ range_chunks' = RangeChunks(start_block, end_block, chunk_size)
    /\ pc' = "loop"
    /\ UNCHANGED <<chain, inclusive, call, returned>>
    /\ UNCHANGED <<start_block, end_block, chunk_size, next_chunk, in_flight,
                   logs, indices, panic, sent, resp, rr, accepted, last,
                   n_returned, n_fed, in_order>>

\* The outer loop calling get_deposit_logs_in_range again for the chunk whose
\* fetch has failed.
IssueFetchRetrying ==
    /\ \/ pc = "loop" /\ next_chunk < Len(range_chunks) /\ next_chunk' = next_chunk + 1
       \/ pc = "panicked" /\ logs = <<>> /\ last = None /\ next_chunk' = next_chunk
    /\ LET request == GetLogsRequest(range_chunks[next_chunk'])
       IN  /\ in_flight' = in_flight \cup {request}
           /\ sent' = Append(sent, request)
    /\ pc' = "await"
    /\ panic' = None
    /\ UNCHANGED <<chain, inclusive, call, returned>>
    /\ UNCHANGED <<start_block, end_block, chunk_size, range_chunks, logs,
                   indices, resp, rr, accepted, last, n_returned, n_fed,
                   in_order>>

\* The outer loop sending every request without awaiting the answers.
IssueFetchWithoutAwait ==
    /\ pc = "loop"
    /\ next_chunk < Len(range_chunks)
    /\ LET request == GetLogsRequest(range_chunks[next_chunk + 1])
       IN  /\ in_flight' = in_flight \cup {request}
           /\ sent' = Append(sent, request)
    /\ next_chunk' = next_chunk + 1
    /\ pc' = IF next_chunk' < Len(range_chunks) THEN "loop" ELSE "await"
    /\ UNCHANGED <<chain, inclusive, call, returned>>
    /\ UNCHANGED <<start_block, end_block, chunk_size, range_chunks, logs,
                   indices, panic, resp, rr, accepted, last, n_returned, n_fed,
                   in_order>>

\* main: the outer for loop takes the next range and calls
\* get_deposit_logs_in_range, which sends the request and awaits the answer.
IssueFetch ==
    /\ pc = "loop"
    /\ next_chunk < Len(range_chunks)
    /\ LET request == GetLogsRequest(range_chunks[next_chunk + 1])
       IN  /\ in_flight' = in_flight \cup {request}
           /\ sent' = Append(sent, request)
    /\ next_chunk' = next_chunk + 1
    /\ pc' = "await"
    /\ UNCHANGED <<chain, inclusive, call, returned>>
    /\ UNCHANGED <<start_block, end_block, chunk_size, range_chunks, logs,
                   indices, panic, resp, rr, accepted, last, n_returned, n_fed,
                   in_order>>

\* send() resolves: the status line and the headers of the answer are in,
\* or the request failed or timed out.
Respond ==
    /\ pc = "await"
    /\ in_flight # {}
    /\ \E response \in Responses :
           /\ resp' = Some(HeadOf(response))
           /\ in_flight' = IF response.sent THEN in_flight ELSE {}
    /\ pc' = "response"
    /\ UNCHANGED <<chain, inclusive, call, returned>>
    /\ UNCHANGED <<start_block, end_block, chunk_size, range_chunks, next_chunk,
                   logs, indices, panic, sent, rr, accepted, last, n_returned,
                   n_fed, in_order>>

\* send_rpc_request resumes after send(): it checks the status and the
\* content type and calls bytes(); on an error it drops the response, the
\* error goes up through get_deposit_logs_in_range and main unwraps it.
TakeResponse ==
    /\ pc = "response"
    /\ LET encoding == send_rpc_request_head(resp[1])
       IN  IF encoding.ok
           THEN /\ pc' = "body"
                /\ UNCHANGED <<panic, in_flight>>
           ELSE /\ panic' = encoding.err
                /\ in_flight' = {}
                /\ pc' = "panicked"
    /\ UNCHANGED <<chain, inclusive, call, returned>>
    /\ UNCHANGED <<start_block, end_block, chunk_size, range_chunks, next_chunk,
                   logs, indices, sent, resp, rr, accepted, last, n_returned,
                   n_fed, in_order>>

\* bytes() resolves: the body of the answer is in, or receiving it failed
\* or timed out.
RespondBody ==
    /\ pc = "body"
    /\ \E response \in Responses :
           /\ HeadOf(response) = resp[1]
           /\ resp' = Some(response)
    /\ in_flight' = {}
    /\ pc' = "received"
    /\ UNCHANGED <<chain, inclusive, call, returned>>
    /\ UNCHANGED <<start_block, end_block, chunk_size, range_chunks, next_chunk,
                   logs, indices, panic, sent, rr, accepted, last, n_returned,
                   n_fed, in_order>>

\* send_rpc_request resumes after bytes(): the check of the encoding, then
\* get_deposit_logs_in_range calls response_result; main unwraps an error.
TakeResult ==
    /\ pc = "received"
    /\ LET response_body ==
               send_rpc_request_body(send_rpc_request_head(resp[1]).val, resp[1])
           result == IF ~response_body.ok THEN response_body
                     ELSE response_result(response_body.val)
       IN  IF result.ok
           THEN /\ rr' = Some(result.val)
                /\ resp' = None
                /\ pc' = "result"
                /\ panic' = panic
           ELSE /\ panic' = result.err
                /\ pc' = "panicked"
                /\ UNCHANGED <<resp, rr>>
    /\ UNCHANGED <<chain, inclusive, call, returned>>
    /\ UNCHANGED <<start_block, end_block, chunk_size, range_chunks, next_chunk,
                   in_flight, logs, indices, sent, accepted, last, n_returned,
                   n_fed, in_order>>

\* get_deposit_logs_in_range: the result becomes the Vec<Log>; main unwraps
\* an error, else starts the inner for loop.
TakeLogs ==
    /\ pc = "result"
    /\ LET fetched == result_logs(rr[1])
       IN  IF fetched.ok
           THEN /\ logs' = fetched.val
                /\ n_returned' = n_returned + Len(fetched.val)
                /\ rr' = None
                /\ pc' = "logs"
                /\ panic' = panic
           ELSE /\ panic' = fetched.err
                /\ pc' = "panicked"
                /\ UNCHANGED <<logs, n_returned, rr>>
    /\ UNCHANGED <<chain, inclusive, call, returned>>
    /\ UNCHANGED <<start_block, end_block, chunk_size, range_chunks, next_chunk,
                   in_flight, indices, sent, resp, accepted, last, n_fed,
                   in_order>>

\* main: one iteration of the inner for loop.
TakeLog ==
    /\ pc = "logs"
    /\ logs # <<>>
    /\ LET log == Head(logs)
           index == from_log(log)
           matched == MatchIndex(indices, index.val)
       IN  /\ logs' = Tail(logs)
           /\ n_fed' = n_fed + 1
           /\ last' = Some([log |-> log, index |-> index, before |-> Len(indices)])
           /\ in_order' = (in_order /\ index.ok /\ index.val = n_fed)
           /\ IF ~index.ok
              THEN /\ panic' = index.err
                   /\ pc' = "panicked"
                   /\ UNCHANGED <<indices, accepted>>
              ELSE /\ indices' = matched.indices
                   /\ accepted' = IF Len(matched.indices) > Len(indices)
                                  THEN Append(accepted, log) ELSE accepted
                   /\ panic' = matched.panic
                   /\ pc' = IF matched.panic = None THEN "logs" ELSE "panicked"
    /\ UNCHANGED <<chain, inclusive, call, returned>>
    /\ UNCHANGED <<start_block, end_block, chunk_size, range_chunks, next_chunk,
                   in_flight, sent, resp, rr, n_returned>>

\* The end of a chunk with the indices recorded so far dropped.
EndChunkResetting ==
    /\ pc = "logs"
    /\ logs = <<>>
    /\ pc' = "loop"
    /\ last' = None
    /\ indices' = <<>>
    /\ accepted' = <<>>
    /\ UNCHANGED <<chain, inclusive, call, returned>>
    /\ UNCHANGED <<start_block, end_block, chunk_size, range_chunks, next_chunk,
                   in_flight, logs, panic, sent, resp, rr,
                   n_returned, n_fed, in_order>>

\* main: the inner for loop is over.
EndChunk ==
    /\ pc = "logs"
    /\ logs = <<>>
    /\ pc' = "loop"
    /\ last' = None
    /\ UNCHANGED <<chain, inclusive, call, returned>>
    /\ UNCHANGED <<start_block, end_block, chunk_size, range_chunks, next_chunk,
                   in_flight, logs, indices, panic, sent, resp, rr, accepted,
                   n_returned, n_fed, in_order>>

\* main: the outer for loop is over and main returns.
Exit ==
    /\ pc = "loop"
    /\ next_chunk = Len(range_chunks)
    /\ pc' = "done"
    /\ UNCHANGED <<chain, inclusive, call, returned>>
    /\ UNCHANGED <<start_block, end_block, chunk_size, range_chunks, next_chunk,
                   in_flight, logs, indices, panic, sent, resp, rr, accepted,
                   last, n_returned, n_fed, in_order>>

Next ==
    \/ BuildChunks
    \/ IssueFetch
    \/ Respond
    \/ TakeResponse
    \/ RespondBody
    \/ TakeResult
    \/ TakeLogs
    \/ TakeLog
    \/ EndChunk
    \/ Exit

Spec == Init /\ [][Next]_vars

\* The chunker alone, over a wider set of ranges and chunk sizes.
InitChunker ==
    /\ start_block \in 0..ChunkerMaxStart
    /\ end_block \in 0..ChunkerMaxEnd
    /\ chunk_size \in 1..ChunkerMaxSize
    /\ range_chunks = <<>>
    /\ next_chunk = 0
    /\ pc = "chunks"
    /\ in_flight = {}
    /\ logs = <<>>
    /\ indices = <<>>
    /\ panic = None
    /\ sent = <<>>
    /\ resp = None
    /\ rr = None
    /\ accepted = <<>>
    /\ last = None
    /\ n_returned = 0
    /\ n_fed = 0
    /\ in_order = TRUE
    /\ chain = <<>>
    /\ inclusive = FALSE
    /\ call = None
    /\ returned = None

SpecChunker == InitChunker /\ [][BuildChunks]_vars

----------------------------------------------------------------------------
(* Properties *)

\* next_expected of the specification: indices.len()
next_expected == Len(indices)

\* C1: in every reachable state the recorded indices are exactly
\* 0, 1, ..., next_expected - 1 in that order: each once, none skipped.
IndicesAreZeroToN ==
    indices = [k \in 1..next_expected |-> k - 1]

\* Three indices are recorded after more than three logs were taken.
IndicesAreZeroToN_Witness ==
    /\ panic = None
    /\ next_expected >= 3
    /\ n_fed > next_expected

\* C2: for start < end the chunker gives one or more half-open ranges in
\* ascending order, each of 1..chunk_size blocks, each starting where the one
\* before ends, the first at start and the last ending at end, so that every
\* block of [start, end) is in exactly one of them; for start >= end it gives
\* none.
ChunksCoverRange ==
    pc # "chunks" =>
        IF start_block >= end_block
        THEN range_chunks = <<>>
        ELSE /\ range_chunks # <<>>
             /\ range_chunks[1].start = start_block
             /\ range_chunks[Len(range_chunks)].end = end_block
             /\ \A j \in 1..Len(range_chunks) :
                    /\ range_chunks[j].end - range_chunks[j].start >= 1
                    /\ range_chunks[j].end - range_chunks[j].start <= chunk_size
             /\ \A j \in 1..(Len(range_chunks) - 1) :
                    range_chunks[j + 1].start = range_chunks[j].end
             /\ \A b \in start_block..(end_block - 1) :
                    Cardinality({j \in 1..Len(range_chunks) :
                                    /\ range_chunks[j].start <= b
                                    /\ b < range_chunks[j].end}) = 1

\* A range cut into three or more chunks, the last one shorter.
ChunksCoverRange_Witness ==
    /\ pc = "loop"
    /\ Len(range_chunks) >= 3
    /\ chunk_size >= 2
    /\ range_chunks[Len(range_chunks)].end - range_chunks[Len(range_chunks)].start
           < chunk_size

\* C3: while every log taken so far carried the index equal to its position
\* in the whole run (0, 1, ..., N-1, however the node split them into
\* chunks), all were accepted and next_expected is their number N; and a log
\* accepted as new with index i leaves next_expected at i + 1.
InOrderAllAccepted ==
    /\ in_order => next_expected = n_fed
    /\ in_order /\ last # None => panic = None /\ pc = "logs"
    /\ \A l \in {last[k] : k \in 1..Len(last)} :
           l.index.ok /\ l.index.val = l.before => next_expected = l.index.val + 1

\* The logs 0, 1, 2 taken in order, the last one from the second chunk.
InOrderAllAccepted_Witness ==
    /\ in_order
    /\ n_fed = 3
    /\ Len(sent) = 2
    /\ last # None
    /\ next_expected = 3

\* C4: a log whose index is greater than next_expected makes the run panic
\* with "Non consecutive"; the index is not recorded, and nothing is taken
\* or fetched afterwards.
GapIsFatal ==
    /\ [](\A l \in {last[k] : k \in 1..Len(last)} :
              l.index.ok /\ l.index.val > l.before =>
                  /\ pc = "panicked"
                  /\ panic = <<"Non consecutive">>
                  /\ next_expected = l.before
                  /\ \A k \in 1..Len(indices) : indices[k] # l.index.val)
    /\ [][panic = <<"Non consecutive">> =>
              /\ n_fed' = n_fed
              /\ logs' = logs
              /\ sent' = sent
              /\ indices' = indices
              /\ pc' = "panicked"]_vars

\* 0, 1, 3: the third log is a gap.
GapIsFatal_Witness ==
    /\ pc = "panicked"
    /\ indices = <<0, 1>>
    /\ n_fed = 3
    /\ last # None
    /\ last[1].index = Ok(3)
    /\ in_flight = {}

\* C5: a log whose index is below next_expected and whose content is that of
\* the log accepted at that index is taken without a panic and leaves
\* next_expected and the recorded indices as they were.
DuplicateIsAccepted ==
    \A l \in {last[k] : k \in 1..Len(last)} :
        (/\ l.index.ok
         /\ l.index.val < l.before
         /\ accepted[l.index.val + 1] = l.log)
        => /\ panic = None
           /\ pc = "logs"
           /\ next_expected = l.before
           /\ Len(accepted) = l.before

\* From next_expected = 5 the chunk 5, 6, 6 has been taken: next_expected = 7.
DuplicateIsAccepted_Witness ==
    /\ panic = None
    /\ n_fed = 8
    /\ last # None
    /\ last[1].index = Ok(6)
    /\ last[1].before = 7
    /\ next_expected = 7
    /\ logs = <<>>

\* C6: a log whose index is below next_expected and whose content differs
\* from that of the log accepted at that index makes the run panic with
\* "Duplicate distinct log".
DistinctDuplicateIsFatal ==
    \A l \in {last[k] : k \in 1..Len(last)} :
        (/\ l.index.ok
         /\ l.index.val < l.before
         /\ accepted[l.index.val + 1].data # l.log.data)
        => /\ pc = "panicked"
           /\ panic = <<"Duplicate distinct log">>

\* C7: a failure at any layer is a panic, after which no request is sent and
\* no log is taken; and the requests sent are those of the first chunks, one
\* each.
FailFastNoRetry ==
    /\ [](/\ panic # None <=> pc = "panicked"
          /\ Len(sent) = next_chunk
          /\ \A k \in 1..Len(sent) : sent[k] = GetLogsRequest(range_chunks[k])
          /\ \A j, k \in 1..Len(sent) : j # k => sent[j] # sent[k])
    /\ [][pc = "panicked" =>
              /\ pc' = "panicked"
              /\ sent' = sent
              /\ in_flight' = in_flight
              /\ n_fed' = n_fed
              /\ logs' = logs
              /\ indices' = indices]_vars

\* The decoder failed with a log of the chunk and a chunk still to come.
FailFastNoRetry_Witness ==
    /\ pc = "panicked"
    /\ panic = <<"Insufficient bytes for index">>
    /\ logs # <<>>
    /\ next_chunk < Len(range_chunks)

\* The block a request names as fromBlock.
FromBlock(request) == hex_to_u64_be(request.fromBlock).val

\* C8: at most one request is in flight; while one is, every log the earlier
\* fetches returned has been taken; and the fromBlock of the requests sent
\* is strictly increasing.
OneChunkAtATime ==
    /\ Cardinality(in_flight) <= 1
    /\ in_flight # {} =>
           logs = <<>> /\ n_fed = n_returned /\ pc \in {"await", "response", "body"}
    /\ \A k \in 1..(Len(sent) - 1) : FromBlock(sent[k]) < FromBlock(sent[k + 1])

\* The second request is in flight after the logs of the first chunk.
OneChunkAtATime_Witness ==
    /\ Len(sent) = 2
    /\ in_flight # {}
    /\ n_fed >= 2

\* A string that is not 0x followed by hex digits only.
NotPrefixedHex(s) ==
    \/ Len(s) < 2
    \/ s[1] # "0"
    \/ s[2] # "x"
    \/ \E k \in 3..Len(s) :
           s[k] \notin {"0", "1", "2", "3", "4", "5", "6", "7", "8", "9",
                        "a", "b", "c", "d", "e", "f", "A", "B", "C", "D", "E", "F"}

\* An element of the result array that lacks blockNumber or data, has one of
\* them not a string, or has one that is not 0x-prefixed hex: a block number
\* with no digit or with a character that is no hex digit (a + before the
\* first digit set aside, which u64::from_str_radix reads as a sign), data
\* with a character that is no hex digit or with an odd number of digits.
MalformedElement(value) ==
    \/ value.t # "object"
    \/ "blockNumber" \notin DOMAIN value.v
    \/ "data" \notin DOMAIN value.v
    \/ value.v.blockNumber.t # "string"
    \/ value.v.data.t # "string"
    \/ LET bn == value.v.blockNumber.v
       IN  \/ Len(bn) <= 2
           \/ NotPrefixedHex(IF bn[3] = "+" /\ Len(bn) > 3
                             THEN <<"0", "x">> \o SubSeq(bn, 4, Len(bn)) ELSE bn)
    \/ NotPrefixedHex(value.v.data.v)
    \/ Len(value.v.data.v) % 2 = 1

\* The result of the RPC is no array, or an array with a malformed element.
MalformedResult(result) ==
    \/ result.t # "array"
    \/ \E k \in 1..Len(result.v) : MalformedElement(result.v[k])

\* C9: when the result is not an array or has a malformed element, the fetch
\* fails as a whole: main panics and no log of the chunk reaches the inner
\* loop.
MalformedResultFailsWhole ==
    [][(pc = "result" /\ rr[1] # None /\ MalformedResult(rr[1][1])) =>
          /\ pc' = "panicked"
          /\ panic' # None
          /\ logs' = <<>>
          /\ n_returned' = n_returned
          /\ n_fed' = n_fed
          /\ last' = last
          /\ indices' = indices]_vars

\* The fetch failed on the second element of an array whose first element is
\* a well-formed log.
MalformedResultFailsWhole_Witness ==
    /\ pc = "panicked"
    /\ rr # None
    /\ rr[1] # None
    /\ rr[1][1].t = "array"
    /\ Len(rr[1][1].v) >= 2
    /\ ~MalformedElement(rr[1][1].v[1])
    /\ MalformedElement(rr[1][1].v[2])
    /\ panic[1] = "Failed to get logs in range"
    /\ logs = <<>>
    /\ n_fed = 0

\* The JSON value has the member.
HasMember(value, key) == value.t = "object" /\ key \in DOMAIN value.v

\* C10: for a 200 OK JSON answer whose body parses, an error member makes
\* the fetch fail with the node's error, whether or not there is a result
\* member; without an error member response_result gives the result member
\* itself, and None exactly when there is none.
ErrorMemberWinsElseResult ==
    [][(/\ pc = "received"
         /\ resp[1] = Reply(resp[1].body)
         /\ resp[1].body # None) =>
          IF HasMember(resp[1].body[1], "error")
          THEN /\ pc' = "panicked"
               /\ panic' = <<"Eth1 node returned error">>
               /\ rr' = rr
          ELSE /\ pc' = "result"
               /\ panic' = None
               /\ rr' = Some(IF HasMember(resp[1].body[1], "result")
                             THEN Some(resp[1].body[1].v.result)
                             ELSE None)]_vars

\* The fetch failed on an envelope that has an error and a result member.
ErrorMemberWinsElseResult_Witness ==
    /\ pc = "panicked"
    /\ panic = <<"Eth1 node returned error">>
    /\ resp # None
    /\ HasMember(resp[1].body[1], "error")
    /\ HasMember(resp[1].body[1], "result")

----------------------------------------------------------------------------
(* lib.rs: the other callers of the transport *)

\* The decimal digits of u64::MAX.
U64MaxDec ==
    <<"1", "8", "4", "4", "6", "7", "4", "4", "0", "7",
      "3", "7", "0", "9", "5", "5", "1", "6", "1", "5">>

IsDecDigit(c) == IsHexDigit(c) /\ HexDigitValue[c] < 10

\* The value of a sequence of decimal digits, most significant first.
RECURSIVE DecValue(_)
DecValue(digits) ==
    IF digits = <<>> THEN 0
    ELSE 10 * DecValue(SubSeq(digits, 1, Len(digits) - 1))
         + HexDigitValue[digits[Len(digits)]]

\* The digits, without leading zeros, spell a number above u64::MAX.
DecOverflows(digits) ==
    \/ Len(digits) > Len(U64MaxDec)
    \/ /\ Len(digits) = Len(U64MaxDec)
       /\ \E k \in 1..Len(digits) :
            /\ HexDigitValue[digits[k]] > HexDigitValue[U64MaxDec[k]]
            /\ \A j \in 1..(k - 1) : digits[j] = U64MaxDec[j]

\* The loop of u64::from_str_radix(src, 10) from the k-th digit on: the
\* digits are read one by one, and the first that is no decimal digit, or
\* that takes the value above u64::MAX, ends the loop with its error.
RECURSIVE ReadDecDigits(_, _)
ReadDecDigits(digits, k) ==
    IF k > Len(digits) THEN Ok(DecValue(DropZeros(digits)))
    ELSE IF ~IsDecDigit(digits[k]) THEN Err(<<"InvalidDigit">>)
    ELSE IF DecOverflows(DropZeros(SubSeq(digits, 1, k)))
    THEN Err(<<"PosOverflow">>)
    ELSE ReadDecDigits(digits, k + 1)

\* u64::from_str_radix(src, 10)
from_str_radix10(src) ==
    LET digits == IF src # <<>> /\ src[1] = "+" /\ Len(src) > 1
                  THEN Tail(src) ELSE src
    IN  IF src = <<>> THEN Err(<<"Empty">>) ELSE ReadDecDigits(digits, 1)

\* impl From<u64> for Eth1Id
Eth1IdFrom(id) ==
    IF id = 1 THEN <<"Mainnet">>
    ELSE IF id = 5 THEN <<"Goerli">>
    ELSE <<"Custom", id>>

\* impl FromStr for Eth1Id
Eth1Id_from_str(s) ==
    LET parsed == from_str_radix10(s)
    IN  IF parsed.ok THEN Ok(Eth1IdFrom(parsed.val))
        ELSE Err(<<"Failed to parse eth1 network id">> \o parsed.err)

\* get_network_id, from the response on.
get_network_id(response) ==
    LET result == rpc_result(response)
    IN  IF ~result.ok THEN result
        ELSE IF result.val = None
        THEN Err(<<"No result was returned for network id">>)
        ELSE IF AsStr(result.val[1]) = None THEN Err(<<"Data was not string">>)
        ELSE Eth1Id_from_str(AsStr(result.val[1])[1])

\* get_chain_id, from the response on.
get_chain_id(response) ==
    LET result == rpc_result(response)
    IN  IF ~result.ok THEN result
        ELSE IF result.val = None
        THEN Err(<<"No result was returned for chain id">>)
        ELSE IF AsStr(result.val[1]) = None THEN Err(<<"Data was not string">>)
        ELSE LET id == hex_to_u64_be(AsStr(result.val[1])[1])
             IN  IF id.ok THEN Ok(Eth1IdFrom(id.val)) ELSE id

\* A get_block_number that takes an absent result for block 0.
get_block_number_defaulting(response) ==
    LET result == rpc_result(response)
    IN  IF ~result.ok THEN result
        ELSE IF result.val = None THEN Ok(0)
        ELSE IF AsStr(result.val[1]) = None THEN Err(<<"Data was not string">>)
        ELSE LET number == hex_to_u64_be(AsStr(result.val[1])[1])
             IN  IF number.ok THEN number
                 ELSE Err(<<"Failed to get block number">> \o number.err)

\* get_block_number, from the response on.
get_block_number(response) ==
    LET result == rpc_result(response)
    IN  IF ~result.ok THEN result
        ELSE IF result.val = None
        THEN Err(<<"No result field was returned for block number">>)
        ELSE IF AsStr(result.val[1]) = None THEN Err(<<"Data was not string">>)
        ELSE LET number == hex_to_u64_be(AsStr(result.val[1])[1])
             IN  IF number.ok THEN number
                 ELSE Err(<<"Failed to get block number">> \o number.err)

\* lib.rs get_deposit_logs_in_range, from the response on: the number of
\* logs in the result array.
lib_get_deposit_logs_in_range(response) ==
    LET result == rpc_result(response)
    IN  IF ~result.ok THEN result
        ELSE IF result.val = None
        THEN Err(<<"No result field was returned for deposit logs">>)
        ELSE IF AsArray(result.val[1]) = None
        THEN Err(<<"'result' value was not an array">>)
        ELSE Ok(Len(AsArray(result.val[1])[1]))

\* main.rs get_deposit_logs_in_range, from the response on.
get_deposit_logs_in_range(response) ==
    LET result == rpc_result(response)
    IN  IF ~result.ok THEN result ELSE result_logs(result.val)

\* What a node may answer to net_version, eth_chainId and eth_blockNumber,
\* besides the answers to eth_getLogs.
CallResponses ==
    Responses
    \cup {Reply(Some(Envelope(None, Some(JStr(s))))) :
            s \in {<<"1">>, <<"5">>, <<"4", "2">>, <<"+", "7">>, <<>>, <<"0", "x", "5">>,
                   <<"0", "x">>, <<"0", "x", "2", "a">>, <<"2", "a">>,
                   <<"0", "x", "z", "z">>,
                   <<"0", "x", "1">> \o [k \in 1..U64HexDigits |-> "0"] \o <<"z">>,
                   U64MaxDec \o <<"0", "z">>,
                   [k \in 1..Len(U64MaxDec) |-> "9"] \o <<"a">>,
                   <<"U+00E9">>}}
    \cup {Reply(Some(Envelope(None, Some(JNum(1)))))}

----------------------------------------------------------------------------
(* The functions called on their own, each on one argument *)

InitCalls ==
    /\ start_block = 0
    /\ end_block = 0
    /\ chunk_size = 1
    /\ range_chunks = <<>>
    /\ next_chunk = 0
    /\ pc = "chunks"
    /\ in_flight = {}
    /\ logs = <<>>
    /\ indices = <<>>
    /\ panic = None
    /\ sent = <<>>
    /\ resp = None
    /\ rr = None
    /\ accepted = <<>>
    /\ last = None
    /\ n_returned = 0
    /\ n_fed = 0
    /\ in_order = TRUE
    /\ chain = <<>>
    /\ inclusive = FALSE
    /\ call = None
    /\ returned = None

\* The variables of main, which no call on its own touches.
main_vars ==
    <<start_block, end_block, chunk_size, range_chunks, next_chunk, pc,
      in_flight, logs, indices, panic, sent, resp, rr, accepted, last,
      n_returned, n_fed, in_order, chain, inclusive>>

\* A function that does not wait, called and returned.
Call(fn, arg) == Some([fn |-> fn, arg |-> arg, stage |-> "returned"])

\* An async function called: its request is built and send() is awaited.
CallSent(fn) == Some([fn |-> fn, arg |-> None, stage |-> "send"])

CallGetNetworkId ==
    /\ call = None
    /\ call' = CallSent("get_network_id")
    /\ UNCHANGED returned
    /\ UNCHANGED main_vars

CallGetChainId ==
    /\ call = None
    /\ call' = CallSent("get_chain_id")
    /\ UNCHANGED returned
    /\ UNCHANGED main_vars

CallGetBlockNumber ==
    /\ call = None
    /\ call' = CallSent("get_block_number")
    /\ UNCHANGED returned
    /\ UNCHANGED main_vars

CallLibGetDepositLogsInRange ==
    /\ call = None
    /\ call' = CallSent("lib::get_deposit_logs_in_range")
    /\ UNCHANGED returned
    /\ UNCHANGED main_vars

CallGetDepositLogsInRange ==
    /\ call = None
    /\ call' = CallSent("get_deposit_logs_in_range")
    /\ UNCHANGED returned
    /\ UNCHANGED main_vars

\* send() resolves and send_rpc_request resumes: it checks the status and
\* the content type and awaits bytes(), or returns its error, which the
\* caller returns as it is.
CallSendDone ==
    /\ call # None
    /\ call[1].stage = "send"
    /\ \E response \in CallResponses :
           LET encoding == send_rpc_request_head(HeadOf(response))
           IN  IF encoding.ok
               THEN /\ call' = Some([call[1] EXCEPT !.arg = HeadOf(response),
                                                    !.stage = "bytes"])
                    /\ UNCHANGED returned
               ELSE /\ call' = Some([call[1] EXCEPT !.arg = HeadOf(response),
                                                    !.stage = "returned"])
                    /\ returned' = encoding
    /\ UNCHANGED main_vars

\* What the async function fn returns on the response.
CallResult(fn, response) ==
    CASE fn = "get_network_id" -> get_network_id(response)
      [] fn = "get_chain_id" -> get_chain_id(response)
      [] fn = "get_block_number" -> get_block_number(response)
      [] fn = "lib::get_deposit_logs_in_range" -> lib_get_deposit_logs_in_range(response)
      [] fn = "get_deposit_logs_in_range" -> get_deposit_logs_in_range(response)

\* bytes() resolves and send_rpc_request resumes: the check of the
\* encoding, then the caller runs to its end on the body.
CallBytesDone ==
    /\ call # None
    /\ call[1].stage = "bytes"
    /\ \E response \in CallResponses :
           /\ HeadOf(response) = call[1].arg
           /\ call' = Some([call[1] EXCEPT !.arg = response, !.stage = "returned"])
           /\ returned' = CallResult(call[1].fn, response)
    /\ UNCHANGED main_vars

\* n bytes of value b.
Bytes(n, b) == [k \in 1..n |-> b]

\* The len least significant bytes of n, least significant first.
RECURSIVE LeBytes(_, _)
LeBytes(n, len) ==
    IF len = 0 THEN <<>> ELSE <<n % 256>> \o LeBytes(n \div 256, len - 1)

\* u64::to_le_bytes
U64Le(n) == LeBytes(n, INDEX_LEN)

\* The five field values of the deposits that are encoded and decoded.
DepositFields ==
    [pubkey : {Bytes(48, 1), Bytes(48, 2)},
     withdrawal_credentials : {Bytes(32, 3), Bytes(32, 4)},
     amount : {U64Le(32), U64Le(1000)},
     signature : {Bytes(96, 5), Bytes(96, 6)},
     index : {U64Le(i) : i \in 0..MaxIndex}]

\* The bytes of field at offset start (counted from 0) cover position k
\* (counted from 1).
Covers(start, field, k) == k > start /\ k <= start + Len(field)

\* The data of a DepositEvent with the five fields at the offsets of the
\* layout, each padded to words of 32 bytes.
DepositEvent(f) ==
    [k \in 1..(INDEX_START + 32) |->
        IF Covers(PUBKEY_START, f.pubkey, k) THEN f.pubkey[k - PUBKEY_START]
        ELSE IF Covers(CREDS_START, f.withdrawal_credentials, k)
        THEN f.withdrawal_credentials[k - CREDS_START]
        ELSE IF Covers(AMOUNT_START, f.amount, k) THEN f.amount[k - AMOUNT_START]
        ELSE IF Covers(SIG_START, f.signature, k) THEN f.signature[k - SIG_START]
        ELSE IF Covers(INDEX_START, f.index, k) THEN f.index[k - INDEX_START]
        ELSE 0]

\* A deposit whose index has three bytes that are not zero.
WideIndexDeposit ==
    [pubkey |-> Bytes(48, 1), withdrawal_credentials |-> Bytes(32, 3),
     amount |-> U64Le(32), signature |-> Bytes(96, 5),
     index |-> Bytes(3, 1) \o Bytes(5, 0)]

\* The logs from_log is called on: every prefix of the data of a deposit.
DataPrefixes ==
    {Log(1, SubSeq(DepositEvent(f), 1, n)) :
        f \in {WideIndexDeposit},
        n \in 0..(INDEX_START + 32)}

CallFromLog ==
    \E log \in DataPrefixes :
        /\ call = None
        /\ call' = Call("from_log", log)
        /\ returned' = from_log(log)
        /\ UNCHANGED main_vars

\* from_log on the log whose data is built from five known field values.
CallFromLogOfDeposit ==
    \E f \in DepositFields :
        /\ call = None
        /\ call' = Call("from_log(DepositEvent)", f)
        /\ returned' = from_log(Log(1, DepositEvent(f)))
        /\ UNCHANGED main_vars

MaxHexLen == 4

\* The strings hex_to_u64_be is called on.
HexStrings ==
    SeqsUpTo({"0", "x", "1", "f", "z", "+"}, MaxHexLen)
    \cup {<<"0", "x", "1">> \o [k \in 1..U64HexDigits |-> "0"] \o tail :
            tail \in {<<>>, <<"z">>}}
    \cup {<<"0", "x", "1">> \o [k \in 1..(U64HexDigits - 1) |-> "0"] \o <<"z">>,
          <<"0", "x", "U+00E9">>}

CallHexToU64Be ==
    \E hex \in HexStrings :
        /\ call = None
        /\ call' = Call("hex_to_u64_be", hex)
        /\ returned' = hex_to_u64_be(hex)
        /\ UNCHANGED main_vars

NextCalls ==
    \/ CallGetNetworkId
    \/ CallGetChainId
    \/ CallGetBlockNumber
    \/ CallLibGetDepositLogsInRange
    \/ CallGetDepositLogsInRange
    \/ CallSendDone
    \/ CallBytesDone
    \/ CallFromLog
    \/ CallFromLogOfDeposit
    \/ CallHexToU64Be

SpecCalls == InitCalls /\ [][NextCalls]_vars

----------------------------------------------------------------------------
(* Properties of the calls *)

\* The answer is 200 OK with a JSON content type and a body that parses to
\* an envelope with neither an error nor a result member.
NeitherErrorNorResult(response) ==
    /\ response = Reply(response.body)
    /\ response.body # None
    /\ response.body[1].t = "object"
    /\ ~HasMember(response.body[1], "error")
    /\ ~HasMember(response.body[1], "result")

\* The callers of response_result that need a result.
ResultCallers ==
    {"get_network_id", "get_chain_id", "get_block_number",
     "lib::get_deposit_logs_in_range", "get_deposit_logs_in_range"}

\* C11: get_block_number, get_network_id, get_chain_id and both
\* get_deposit_logs_in_range return an error when the envelope has neither
\* an error nor a result member: none returns a value (no logs, block 0)
\* for the absent result.
AbsentResultIsAnError ==
    (/\ call # None
     /\ call[1].fn \in ResultCallers
     /\ call[1].stage = "returned"
     /\ NeitherErrorNorResult(call[1].arg)) =>
        /\ ~returned.ok
        /\ returned.err \in {<<"No result was returned for network id">>,
                             <<"No result was returned for chain id">>,
                             <<"No result field was returned for block number">>,
                             <<"No result field was returned for deposit logs">>}

\* get_block_number was called on an envelope with neither member and
\* returned its error.
AbsentResultIsAnError_Witness ==
    /\ call # None
    /\ call[1].fn = "get_block_number"
    /\ call[1].stage = "returned"
    /\ NeitherErrorNorResult(call[1].arg)
    /\ returned = Err(<<"No result field was returned for block number">>)

----------------------------------------------------------------------------
(* Properties of the transport *)

\* The answer declares one of the two JSON content types.
DeclaresJson(response) ==
    /\ response.content_type # None
    /\ response.content_type[1].ascii
    /\ response.content_type[1].text
           \in {"application/json", "application/json; charset=utf-8"}

\* C12: the request of a fetch fails when the status of the answer is not
\* 200 OK (as soon as the headers are in: the body is awaited only of a
\* 200 OK answer), when its content type is neither application/json nor
\* application/json; charset=utf-8, or when its body is not JSON (once the
\* body is in); an answer received whole with status 200 OK, one of the
\* two content types and a JSON body without an error member does not
\* fail at either step and yields a result.
RequestFailsOrYields ==
    [][/\ pc = "response" =>
            /\ (\/ resp[1].status # StatusOK
                \/ resp[1].content_type = None
                \/ ~resp[1].content_type[1].ascii) =>
                   /\ pc' = "panicked"
                   /\ panic' # None
                   /\ rr' = None
            /\ (/\ resp[1].sent
                /\ resp[1].status = StatusOK
                /\ resp[1].content_type # None
                /\ resp[1].content_type[1].ascii) =>
                   /\ pc' = "body"
                   /\ panic' = None
       /\ pc \in {"body", "received"} => resp[1].sent /\ resp[1].status = StatusOK
       /\ pc = "received" =>
            /\ (\/ ~DeclaresJson(resp[1])
                \/ resp[1].body = None) =>
                   /\ pc' = "panicked"
                   /\ panic' # None
                   /\ rr' = None
            /\ (/\ resp[1].received
                /\ DeclaresJson(resp[1])
                /\ resp[1].body # None
                /\ ~HasMember(resp[1].body[1], "error")) =>
                   /\ pc' = "result"
                   /\ panic' = None
                   /\ rr' # None]_vars

\* The fetch failed on a 200 OK answer received whole whose content type
\* is text/html.
RequestFailsOrYields_Witness ==
    /\ pc = "panicked"
    /\ panic = <<"Failed to receive body", "Unsupported encoding">>
    /\ resp # None
    /\ resp[1].status = StatusOK
    /\ resp[1].received
    /\ resp[1].content_type = Some([ascii |-> TRUE, text |-> "text/html"])

----------------------------------------------------------------------------
(* Properties of the decoder *)

\* C13: from_log on a log whose data has fewer than INDEX_START + INDEX_LEN
\* bytes returns the error "Insufficient bytes for index": it returns no
\* index, whatever part of the index bytes is there; on data that holds
\* the whole index it returns that index.
ShortDataIsTruncated ==
    (call # None /\ call[1].fn = "from_log") =>
        IF Len(call[1].arg.data) < INDEX_START + INDEX_LEN
        THEN returned = Err(<<"Insufficient bytes for index">>)
        ELSE returned = Ok(1 + 256 + 256 * 256)

\* from_log returned the error on data that stops one byte before the end
\* of the index.
ShortDataIsTruncated_Witness ==
    /\ call # None
    /\ call[1].fn = "from_log"
    /\ Len(call[1].arg.data) = INDEX_START + INDEX_LEN - 1
    /\ call[1].arg.data[INDEX_START + 1] = 1
    /\ returned = Err(<<"Insufficient bytes for index">>)

\* C14: what from_log returns for the data built from five known field
\* values gives back those five values: it is a value, and no data built
\* from other field values decodes to the same.
DecodeReproducesFields ==
    (call # None /\ call[1].fn = "from_log(DepositEvent)") =>
        /\ returned.ok
        /\ \A f \in DepositFields :
              from_log(Log(1, DepositEvent(f))) = returned => f = call[1].arg

----------------------------------------------------------------------------
(* Properties of the hex parsing *)

\* The string starts with 0x.
HasHexPrefix(hex) == Len(hex) >= 2 /\ hex[1] = "0" /\ hex[2] = "x"

\* C15, as claimed: hex_to_u64_be gives 1 for "0x01"; every string that
\* does not start with 0x fails with the missing-prefix error, whatever its
\* digits are; every string that starts with 0x and then has a character
\* that is not a hex digit fails with the parse error.
HexPrefixThenHexDigitsOnly ==
    (call # None /\ call[1].fn = "hex_to_u64_be") =>
        LET hex == call[1].arg
        IN  /\ hex = <<"0", "x", "0", "1">> => returned = Ok(1)
            /\ ~HasHexPrefix(hex) =>
                  returned = Err(<<"Hex string did not start with 0x">>)
            /\ (/\ HasHexPrefix(hex)
                /\ \E k \in 3..Len(hex) : ~IsHexDigit(hex[k])) =>
                  /\ ~returned.ok
                  /\ returned.err[1] = "Failed to parse hex as u64"

\* What follows the prefix 0x, less one + sign in front of it when more
\* follows the sign.
DigitsAfterSign(hex) ==
    LET rest == SubSeq(hex, 3, Len(hex))
    IN  IF Len(rest) > 1 /\ rest[1] = "+" THEN Tail(rest) ELSE rest

\* C15: hex_to_u64_be gives 1 for "0x01"; every string that does not start
\* with 0x fails with the missing-prefix error, whatever its digits are;
\* a string that starts with 0x fails with the parse error when what
\* follows the prefix, less one + sign in front of it, is empty or has a
\* character that is not a hex digit ("0xzz", "0x1+", "0x+", "0x++1");
\* one + sign between the prefix and the digits is accepted: "0x+1" gives 1.
HexPrefixThenDigits ==
    (call # None /\ call[1].fn = "hex_to_u64_be") =>
        LET hex == call[1].arg
        IN  /\ hex = <<"0", "x", "0", "1">> => returned = Ok(1)
            /\ hex = <<"0", "x", "+", "1">> => returned = Ok(1)
            /\ ~HasHexPrefix(hex) =>
                  returned = Err(<<"Hex string did not start with 0x">>)
            /\ (/\ HasHexPrefix(hex)
                /\ \/ DigitsAfterSign(hex) = <<>>
                   \/ \E k \in 1..Len(DigitsAfterSign(hex)) :
                         ~IsHexDigit(DigitsAfterSign(hex)[k])) =>
                  /\ ~returned.ok
                  /\ returned.err[1] = "Failed to parse hex as u64"

\* hex_to_u64_be failed with the parse error on "0xzz".
HexPrefixThenDigits_Witness ==
    /\ call # None
    /\ call[1].fn = "hex_to_u64_be"
    /\ call[1].arg = <<"0", "x", "z", "z">>
    /\ returned = Err(<<"Failed to parse hex as u64", "InvalidDigit">>)

----------------------------------------------------------------------------
(* main against a node that answers from a chain of deposits *)

\* The deposits of the first n blocks of a chain; ch[b + 1] is the number
\* of deposit logs of block b.
RECURSIVE DepositsBefore(_, _)
DepositsBefore(ch, n) ==
    IF n = 0 THEN 0 ELSE DepositsBefore(ch, n - 1) + ch[n]

\* The log of the deposit of the given index, in the given block.
ChainLog(block, index) ==
    JObj([blockNumber |-> JStr(FormatHex(block)),
          data |-> JStr(HexText(DepositData(0, index)))])

\* The logs of one block, in the order of their indices.
LogsOfBlock(ch, block) ==
    IF block >= Len(ch) THEN <<>>
    ELSE [k \in 1..ch[block + 1] |->
            ChainLog(block, DepositsBefore(ch, block) + k - 1)]

\* The logs of the blocks from..to, in block order.
RECURSIVE LogsOfBlocks(_, _, _)
LogsOfBlocks(ch, from, to) ==
    IF from > to THEN <<>>
    ELSE LogsOfBlock(ch, from) \o LogsOfBlocks(ch, from + 1, to)

\* The chains whose deposits all lie in the blocks start..end-1, with up
\* to two deposits in a block.
ChainsWithin(start, end) ==
    {ch \in [1..MaxBlock -> 0..2] :
        \A b \in 1..MaxBlock : (b - 1 < start \/ b - 1 >= end) => ch[b] = 0}

InitChain ==
    /\ start_block \in 0..MaxStart
    /\ end_block \in 0..MaxBlock
    /\ chunk_size \in 1..MaxChunkSize
    /\ range_chunks = <<>>
    /\ next_chunk = 0
    /\ pc = "chunks"
    /\ in_flight = {}
    /\ logs = <<>>
    /\ indices = <<>>
    /\ panic = None
    /\ sent = <<>>
    /\ resp = None
    /\ rr = None
    /\ accepted = <<>>
    /\ last = None
    /\ n_returned = 0
    /\ n_fed = 0
    /\ in_order = TRUE
    /\ chain \in ChainsWithin(start_block, end_block)
    /\ inclusive \in BOOLEAN
    /\ call = None
    /\ returned = None

\* The node answers the request in flight: 200 OK and a JSON content type.
RespondFromChain ==
    /\ pc = "await"
    /\ in_flight # {}
    /\ resp' = Some(HeadOf(Reply(None)))
    /\ pc' = "response"
    /\ UNCHANGED <<chain, inclusive, call, returned>>
    /\ UNCHANGED <<start_block, end_block, chunk_size, range_chunks, next_chunk,
                   in_flight, logs, indices, panic, sent, rr, accepted, last,
                   n_returned, n_fed, in_order>>

\* The body of the node's answer comes in: the logs of the blocks
\* fromBlock..toBlock of its chain, the block toBlock left out unless the
\* node takes the range as inclusive.
RespondBodyFromChain ==
    /\ pc = "body"
    /\ in_flight # {}
    /\ LET request == CHOOSE r \in in_flight : TRUE
           from == hex_to_u64_be(request.fromBlock).val
           to == hex_to_u64_be(request.toBlock).val
           found == LogsOfBlocks(chain, from, IF inclusive THEN to ELSE to - 1)
       IN  resp' = Some(Reply(Some(Envelope(None, Some(JArr(found))))))
    /\ in_flight' = {}
    /\ pc' = "received"
    /\ UNCHANGED <<chain, inclusive, call, returned>>
    /\ UNCHANGED <<start_block, end_block, chunk_size, range_chunks, next_chunk,
                   logs, indices, panic, sent, rr, accepted, last, n_returned,
                   n_fed, in_order>>

NextChain ==
    \/ BuildChunks
    \/ IssueFetch
    \/ RespondFromChain
    \/ TakeResponse
    \/ RespondBodyFromChain
    \/ TakeResult
    \/ TakeLogs
    \/ TakeLog
    \/ EndChunk
    \/ Exit

SpecChain == InitChain /\ [][NextChain]_vars

\* C16: the k-th request carries the start of the k-th chunk as fromBlock
\* and its end as toBlock, so the toBlock of a request is the fromBlock of
\* the next; over a chain whose deposits 0..N-1 lie in block order in the
\* range, the run never fails and ends with next_expected = N and
\* indices 0..N-1, whether the node leaves the block toBlock out or
\* returns its logs in two adjacent fetches.
OverlapIsHarmless ==
    /\ \A k \in 1..Len(sent) :
          /\ hex_to_u64_be(sent[k].fromBlock) = Ok(range_chunks[k].start)
          /\ hex_to_u64_be(sent[k].toBlock) = Ok(range_chunks[k].end)
    /\ \A k \in 1..(Len(sent) - 1) : sent[k].toBlock = sent[k + 1].fromBlock
    /\ panic = None
    /\ pc # "panicked"
    /\ pc = "done" =>
          /\ next_expected = DepositsBefore(chain, Len(chain))
          /\ \A k \in 1..Len(indices) : indices[k] = k - 1

\* A run against an inclusive node ended after two fetches or more, having
\* been fed more logs than the chain has deposits.
OverlapIsHarmless_Witness ==
    /\ pc = "done"
    /\ inclusive
    /\ Len(sent) >= 2
    /\ next_expected >= 2
    /\ n_fed > next_expected

----------------------------------------------------------------------------
(* Properties of the order of a run *)

\* Fetch, decode, validate: a log is taken only from the answer to a fetch,
\* each returned log once, every log of a chunk before the next fetch, and
\* the validator sees what from_log made of the log.
FetchDecodeValidate ==
    /\ n_fed + Len(logs) = n_returned
    /\ n_returned > 0 => sent # <<>>
    /\ pc \in {"await", "response", "body", "received", "result"} => logs = <<>>
    /\ last # None =>
          /\ last[1].index = from_log(last[1].log)
          /\ last[1].index.ok =>
                /\ indices = MatchIndex(SubSeq(indices, 1, last[1].before),
                                        last[1].index.val).indices
                /\ panic = MatchIndex(SubSeq(indices, 1, last[1].before),
                                      last[1].index.val).panic

\* C17, as claimed: once the chunks are built the first request of the run
\* has been sent and is eth_blockNumber; then each chunk is fetched, its
\* logs decoded and fed to the validator.
HeadBeforeChunks ==
    /\ pc # "chunks" => (sent # <<>> /\ sent[1].method = "eth_blockNumber")
    /\ FetchDecodeValidate

\* C17, amended: no run asks for the chain head. The chunks are built
\* before any request is sent, from the start and end block the run is
\* given, every request of the run is eth_getLogs, and each chunk is
\* fetched, its logs decoded and fed to the validator.
ChunksThenFetchDecodeValidate ==
    /\ \A k \in 1..Len(sent) : sent[k].method = "eth_getLogs"
    /\ pc = "chunks" => (sent = <<>> /\ range_chunks = <<>> /\ n_fed = 0)
    /\ pc # "chunks" =>
          range_chunks = RangeChunks(start_block, end_block, chunk_size)
    /\ FetchDecodeValidate

\* The validator was fed a decoded log of the second chunk.
ChunksThenFetchDecodeValidate_Witness ==
    /\ Len(sent) = 2
    /\ pc = "logs"
    /\ last # None
    /\ last[1].index.ok
    /\ n_fed >= 2
    /\ \A k \in 1..Len(sent) : sent[k].method = "eth_getLogs"

----------------------------------------------------------------------------
(* Termination *)

\* Control of main moves on: from every position but the await of a
\* request, and short of its end, main goes to another position.
MainRuns ==
    /\ pc \in {"chunks", "loop", "response", "received", "result", "logs"}
    /\ pc' \in {"loop", "await", "body", "result", "logs", "done", "panicked"}

\* Every request in flight is answered, fails or times out (the timeout
\* of the client), and main runs on until its end.
SpecFair == Spec /\ WF_vars(Respond) /\ WF_vars(RespondBody) /\ WF_pc(MainRuns)

\* The least number of chunks of chunk_size blocks that cover the range.
FetchesNeeded ==
    LET blocks == IF end_block > start_block THEN end_block - start_block ELSE 0
    IN  CHOOSE n \in 0..blocks :
            /\ n * chunk_size >= blocks
            /\ n > 0 => (n - 1) * chunk_size < blocks

\* C18: every run ends, either panicked at its first failure or done; a
\* run that is done has sent exactly ceil((end - start) / chunk_size)
\* fetches, one per chunk, and met no failure; nothing happens after the
\* end.
RunTerminates ==
    /\ <>(pc \in {"done", "panicked"})
    /\ [](pc = "panicked" <=> panic # None)
    /\ [](pc = "done" =>
            /\ panic = None
            /\ next_chunk = Len(range_chunks)
            /\ Len(sent) = FetchesNeeded
            /\ logs = <<>>
            /\ in_flight = {})
    /\ [][pc \notin {"done", "panicked"}]_vars
    /\ [][panic = None /\ panic' # None => Len(sent') = Len(sent)]_vars

\* A run is done whose last chunk is shorter than chunk_size.
RunTerminates_Witness ==
    /\ pc = "done"
    /\ end_block > start_block
    /\ (end_block - start_block) % chunk_size # 0
    /\ Len(sent) = FetchesNeeded
    /\ n_fed > 0

----------------------------------------------------------------------------
(* Properties of the recorded indices *)

\* C19: the k-th recorded index is k, counted from 0; so when a log
\* carries an index already recorded, the slot of that index holds the
\* index itself, the comparison of the Less arm finds them equal, and no
\* run panics with "Duplicate distinct log".
DuplicateDistinctUnreachable ==
    /\ \A k \in 0..(Len(indices) - 1) : indices[k + 1] = k
    /\ panic # <<"Duplicate distinct log">>
    /\ (/\ last # None
        /\ last[1].index.ok
        /\ last[1].index.val < last[1].before) =>
          /\ indices[last[1].index.val + 1] = last[1].index.val
          /\ Len(indices) = last[1].before
          /\ panic = None

\* The Less arm has let through a log whose data differs from the data of
\* the log recorded under its index.
DuplicateDistinctUnreachable_Witness ==
    /\ last # None
    /\ last[1].index.ok
    /\ last[1].index.val < last[1].before
    /\ accepted[last[1].index.val + 1].data # last[1].log.data
    /\ panic = None
    /\ pc = "logs"

\* C20: next_expected is 0 when the run starts; no step lowers it, the end
\* of a chunk and the next fetch included; the step that takes a log whose
\* decoded index is next_expected raises it by exactly one, and every other
\* step, the taking of any other log included, leaves it as it is.
NextExpectedOnlyCountsUp ==
    /\ next_expected = 0
    /\ [][/\ next_expected' >= next_expected
          /\ IF /\ n_fed' = n_fed + 1
                /\ last'[1].index = Ok(next_expected)
             THEN next_expected' = next_expected + 1
             ELSE next_expected' = next_expected]_vars

\* The logs of the second chunk are about to be taken, with the count of
\* the first chunk still there.
NextExpectedOnlyCountsUp_Witness ==
    /\ Len(sent) = 2
    /\ pc = "logs"
    /\ last = None
    /\ logs # <<>>
    /\ next_expected >= 2

====
